---- MODULE Spec2Model ----
(***************************************************************************)
(* Email spoofing detector: ParseEmail (utils/parser.go), the Email model  *)
(* (models), the structural rules (detector rules) and                     *)
(* SpoofDetector.Analyze with its SPF / DKIM / DMARC checks.               *)
(*                                                                         *)
(* A Go string is a sequence of one-character strings.  A *mail.Address is *)
(* a sequence of length 0 (nil) or 1 (the Address field).  A reason is the *)
(* concatenation of its literal pieces and the domains spliced into it.    *)
(***************************************************************************)
EXTENDS Integers, Sequences, FiniteSets, TLC

VARIABLES raw, email, pc, ruleIdx, result, lookups, answers, runs, prev

vars == <<raw, email, pc, ruleIdx, result, lookups, answers, runs, prev>>

(* Number of Analyze calls made on the same Email. *)
MaxRuns == 2

\* ------------------------------------------------------------------ strings

Empty == <<>>

UpperChars == <<"A","B","C","D","E","F","G","H","I","J","K","L","M","N","O","P","Q","R","S","T","U","V","W","X","Y","Z">>
LowerChars == <<"a","b","c","d","e","f","g","h","i","j","k","l","m","n","o","p","q","r","s","t","u","v","w","x","y","z">>

ToLowerChar(c) ==
    IF \E k \in 1..Len(UpperChars) : UpperChars[k] = c
    THEN LowerChars[CHOOSE k \in 1..Len(UpperChars) : UpperChars[k] = c]
    ELSE c

ToUpperChar(c) ==
    IF \E k \in 1..Len(LowerChars) : LowerChars[k] = c
    THEN UpperChars[CHOOSE k \in 1..Len(LowerChars) : LowerChars[k] = c]
    ELSE c

\* strings.ToLower
ToLower(s) == [k \in 1..Len(s) |-> ToLowerChar(s[k])]

\* strings.Index, 1-based; 0 when sub does not occur in s
Index(s, sub) ==
    LET hits == {k \in 1..(Len(s) - Len(sub) + 1) : SubSeq(s, k, k + Len(sub) - 1) = sub}
    IN  IF hits = {} THEN 0 ELSE CHOOSE k \in hits : \A j \in hits : k <= j

\* strings.Contains
Contains(s, sub) == Index(s, sub) # 0

\* strings.HasPrefix
HasPrefix(s, p) == Len(s) >= Len(p) /\ SubSeq(s, 1, Len(p)) = p

\* strings.HasSuffix
HasSuffix(s, p) == Len(s) >= Len(p) /\ SubSeq(s, Len(s) - Len(p) + 1, Len(s)) = p

\* strings.TrimPrefix
TrimPrefix(s, p) == IF HasPrefix(s, p) THEN SubSeq(s, Len(p) + 1, Len(s)) ELSE s

\* strings.TrimSuffix
TrimSuffix(s, p) == IF HasSuffix(s, p) THEN SubSeq(s, 1, Len(s) - Len(p)) ELSE s

\* strings.Replace(s, old, new, 1): the first occurrence only
Replace1(s, old, new) ==
    LET k == Index(s, old)
    IN  IF k = 0 THEN s
        ELSE SubSeq(s, 1, k - 1) \o new \o SubSeq(s, k + Len(old), Len(s))

\* strings.Split(s, c) for a one-character separator c
RECURSIVE Split(_, _)
Split(s, c) ==
    LET k == Index(s, <<c>>)
    IN  IF k = 0 THEN <<s>>
        ELSE <<SubSeq(s, 1, k - 1)>> \o Split(SubSeq(s, k + 1, Len(s)), c)

\* ------------------------------------------------------------------- models

Nil == <<>>
Ptr(a) == <<a>>

\* GetDomain with `len(parts) < 2` for `len(parts) != 2`, the domain taken after
\* the last "@"
GetDomainLastPart(address) ==
    IF address = Nil THEN Empty
    ELSE LET parts == Split(address[1], "@")
         IN  IF Len(parts) < 2 THEN Empty ELSE parts[Len(parts)]

\* models.GetDomain
GetDomain(address) ==
    IF address = Nil THEN Empty
    ELSE LET parts == Split(address[1], "@")
         IN  IF Len(parts) # 2 THEN Empty ELSE parts[2]

\* Email.HasHeader: exact-name lookup in the header map
HasHeader(e, name) == name \in DOMAIN e.Headers

\* Email.GetAllHeaderValues: the nil slice for a missing key
GetAllHeaderValues(e, name) == IF name \in DOMAIN e.Headers THEN e.Headers[name] ELSE <<>>

\* Email.GetHeaderValue: the first value, "" when missing
GetHeaderValue(e, name) ==
    IF name \notin DOMAIN e.Headers \/ Len(e.Headers[name]) = 0 THEN Empty
    ELSE e.Headers[name][1]

H_From == <<"F","r","o","m">>
H_ReplyTo == <<"R","e","p","l","y","-","T","o">>
H_ReturnPath == <<"R","e","t","u","r","n","-","P","a","t","h">>
H_Received == <<"R","e","c","e","i","v","e","d">>
H_DKIM == <<"D","K","I","M","-","S","i","g","n","a","t","u","r","e">>

\* ------------------------------------------------------------------- parser

Letters == {UpperChars[k] : k \in 1..Len(UpperChars)} \cup {LowerChars[k] : k \in 1..Len(LowerChars)}
Digits == {"0", "1", "2", "3", "4", "5", "6", "7", "8", "9"}

\* net/textproto validHeaderFieldByte: the RFC 7230 token characters (those of
\* them that the strings of this model use)
TokenChars == Letters \cup Digits \cup {"-", ".", "_", "+", "~"}

\* net/textproto CanonicalMIMEHeaderKey, applied by mail.ReadMessage to every
\* header name it stores: the first letter and every letter after a hyphen
\* upper-cased, every other letter lower-cased; a name with a non-token
\* character is stored unchanged.
CanonicalMIMEHeaderKey(name) ==
    IF \E k \in 1..Len(name) : name[k] \notin TokenChars THEN name
    ELSE [k \in 1..Len(name) |->
            IF k = 1 \/ name[k - 1] = "-" THEN ToUpperChar(name[k]) ELSE ToLowerChar(name[k])]

\* mail.ReadMessage: the header map, name -> values in message order
ReadHeader(lines) ==
    LET keys == {CanonicalMIMEHeaderKey(lines[k].name) : k \in 1..Len(lines)}
        ValuesOf(key) ==
            LET own == SelectSeq(lines, LAMBDA l : CanonicalMIMEHeaderKey(l.name) = key)
            IN  [k \in 1..Len(own) |-> own[k].value]
    IN  [key \in keys |-> ValuesOf(key)]

\* mail.Header.Get: canonicalises the name it is asked for, first value or ""
HeaderGet(h, name) ==
    LET key == CanonicalMIMEHeaderKey(name)
    IN  IF key \notin DOMAIN h \/ Len(h[key]) = 0 THEN Empty ELSE h[key][1]

\* mail.ParseAddress on a bare addr-spec (the raw messages of this model carry
\* no display names): local@domain with exactly one "@", both sides non-empty,
\* no space; nil when the parse fails.
ParseAddress(s) ==
    LET parts == Split(s, "@")
    IN  IF Len(parts) = 2 /\ parts[1] # Empty /\ parts[2] # Empty
           /\ \A k \in 1..Len(s) : s[k] \notin {" ", "<", ">"}
        THEN Ptr(s) ELSE Nil

\* utils.ParseEmail on a message with a well-formed header block; data is the
\* sequence of its header lines, the empty sequence the empty input.
\* MessageID, Subject, Body and RawContent are never read by the detector.
ParseEmailFails(data) == Len(data) = 0

ParseEmailValue(data) ==
    LET h          == ReadHeader(data)
        from       == HeaderGet(h, H_From)
        replyTo    == HeaderGet(h, H_ReplyTo)
        returnPath == HeaderGet(h, H_ReturnPath)
    IN  [ From       |-> IF from # Empty THEN ParseAddress(from) ELSE Nil,
          ReplyTo    |-> IF replyTo # Empty THEN ParseAddress(replyTo) ELSE Nil,
          ReturnPath |-> IF returnPath # Empty
                         THEN TrimSuffix(TrimPrefix(returnPath, <<"<">>), <<">">>)
                         ELSE Empty,
          Headers    |-> h ]

\* -------------------------------------------------------------------- rules

\* (bool, string) returned by a CheckFunc
NoTrigger == [triggered |-> FALSE, reason |-> Empty]
Trigger(reason) == [triggered |-> TRUE, reason |-> reason]

\* ([]string, error) returned by net.LookupTXT
LookupError == [err |-> TRUE, records |-> <<>>]
LookupOK(records) == [err |-> FALSE, records |-> records]

\* Rules(): name and weight, in registration order
Rules ==
    << [Name |-> "inconsistent_from_reply_to",    Weight |-> 3],
       [Name |-> "inconsistent_from_return_path", Weight |-> 3],
       [Name |-> "missing_spf",                   Weight |-> 2],
       [Name |-> "suspicious_from_domain",        Weight |-> 4],
       [Name |-> "multiple_from_headers",         Weight |-> 5],
       [Name |-> "suspicious_received_chain",     Weight |-> 2] >>

checkFromReplyToDomainMismatch(e) ==
    IF e.From = Nil \/ e.ReplyTo = Nil THEN NoTrigger
    ELSE LET fromDomain    == GetDomain(e.From)
             replyToDomain == GetDomain(e.ReplyTo)
         IN  IF fromDomain # Empty /\ replyToDomain # Empty /\ fromDomain # replyToDomain
             THEN Trigger(<<"From domain (">> \o fromDomain
                          \o <<") doesn't match Reply-To domain (">> \o replyToDomain \o <<")">>)
             ELSE NoTrigger

checkFromReturnPathDomainMismatch(e) ==
    IF e.From = Nil \/ e.ReturnPath = Empty THEN NoTrigger
    ELSE LET fromDomain      == GetDomain(e.From)
             returnPathParts == Split(e.ReturnPath, "@")
         IN  IF Len(returnPathParts) # 2 THEN NoTrigger
             ELSE LET returnPathDomain == returnPathParts[2]
                  IN  IF fromDomain # Empty /\ returnPathDomain # Empty
                         /\ fromDomain # returnPathDomain
                      THEN Trigger(<<"From domain (">> \o fromDomain
                                   \o <<") doesn't match Return-Path domain (">>
                                   \o returnPathDomain \o <<")">>)
                      ELSE NoTrigger

SPFPrefix == <<"v","=","s","p","f","1">>
DMARCPrefix == <<"v","=","D","M","A","R","C","1">>

\* checkMissingSPF reaches its net.LookupTXT call
MissingSPFLooksUp(e) == e.From # Nil /\ GetDomain(e.From) # Empty

\* checkMissingSPF failing closed: a lookup error counts as a missing record
checkMissingSPFFailClosed(e, txt) ==
    IF e.From = Nil \/ GetDomain(e.From) = Empty THEN [triggered |-> FALSE, reason |-> <<>>]
    ELSE IF ~txt.err /\ \E k \in 1..Len(txt.records) : HasPrefix(txt.records[k], SPFPrefix)
         THEN [triggered |-> FALSE, reason |-> <<>>]
    ELSE [triggered |-> TRUE,
          reason |-> <<"Domain ">> \o GetDomain(e.From) \o <<" doesn't have an SPF record">>]

\* checkMissingSPF without the "v=spf1" prefix test: any TXT record counts
checkMissingSPFAnyRecord(e, txt) ==
    IF e.From = Nil \/ GetDomain(e.From) = Empty THEN [triggered |-> FALSE, reason |-> <<>>]
    ELSE IF txt.err \/ Len(txt.records) > 0 THEN [triggered |-> FALSE, reason |-> <<>>]
    ELSE [triggered |-> TRUE,
          reason |-> <<"Domain ">> \o GetDomain(e.From) \o <<" doesn't have an SPF record">>]

\* checkMissingSPF; txt is what its net.LookupTXT call returns
checkMissingSPF(e, txt) ==
    IF ~MissingSPFLooksUp(e) THEN NoTrigger
    ELSE IF txt.err THEN NoTrigger
    ELSE IF \E k \in 1..Len(txt.records) : HasPrefix(txt.records[k], SPFPrefix) THEN NoTrigger
    ELSE Trigger(<<"Domain ">> \o GetDomain(e.From) \o <<" doesn't have an SPF record">>)

\* isSimilarDomain
isSimilarDomain(domain1, domain2) ==
    LET typos == << Replace1(domain2, <<".">>, <<"-">>),
                    Replace1(domain2, <<".">>, Empty),
                    <<"m","a","i","l","-">> \o domain2,
                    domain2 \o <<"-","s","e","c","u","r","e">>,
                    Replace1(domain2, <<"m">>, <<"r","n">>) >>
    IN  \/ domain1 # domain2 /\ Contains(domain1, Replace1(domain2, <<".">>, Empty))
        \/ \E k \in 1..Len(typos) : domain1 = typos[k]

\* the keys of the commonDomains map, in the order of the map literal
commonDomains ==
    << <<"g","m","a","i","l",".","c","o","m">>, <<"y","a","h","o","o",".","c","o","m">>, <<"o","u","t","l","o","o","k",".","c","o","m">>, <<"h","o","t","m","a","i","l",".","c","o","m">>,
       <<"m","i","c","r","o","s","o","f","t",".","c","o","m">>, <<"a","p","p","l","e",".","c","o","m">>, <<"a","m","a","z","o","n",".","c","o","m">>, <<"f","a","c","e","b","o","o","k",".","c","o","m">>,
       <<"p","a","y","p","a","l",".","c","o","m">>, <<"w","e","l","l","s","f","a","r","g","o",".","c","o","m">>, <<"b","a","n","k","o","f","a","m","e","r","i","c","a",".","c","o","m">>, <<"c","h","a","s","e",".","c","o","m">> >>

\* The order of one `for domain := range commonDomains`: Go starts a map
\* iteration at a random position, so the order is the keys' order rotated to
\* begin at any key; start is that position.
RangeOrder(start) ==
    [j \in 1..Len(commonDomains) |-> commonDomains[((start + j - 2) % Len(commonDomains)) + 1]]

\* checkSuspiciousFromDomain under the iteration order that begins at start:
\* the first similar domain of that order is the one the reason names
checkSuspiciousFromDomain(e, start) ==
    IF e.From = Nil \/ GetDomain(e.From) = Empty THEN NoTrigger
    ELSE LET fromDomain == GetDomain(e.From)
             order      == RangeOrder(start)
             hits       == {j \in 1..Len(order) :
                              fromDomain # order[j] /\ isSimilarDomain(fromDomain, order[j])}
         IN  IF hits = {} THEN NoTrigger
             ELSE LET j == CHOOSE j \in hits : \A h \in hits : j <= h
                  IN  Trigger(<<"From domain (">> \o fromDomain
                              \o <<") looks similar to ">> \o order[j])

checkMultipleFromHeaders(e) ==
    IF Len(GetAllHeaderValues(e, H_From)) > 1
    THEN Trigger(<<"Email contains multiple From headers">>)
    ELSE NoTrigger

suspiciousPatterns ==
    << <<"u","n","k","n","o","w","n">>, <<"l","o","c","a","l","h","o","s","t">>, <<"1","2","7",".","0",".","0",".","1">>, <<"1","9","2",".","1","6","8",".">>, <<"1","0",".","0",".">>, <<"1","7","2",".","1","6",".">> >>

checkSuspiciousReceivedChain(e) ==
    LET receivedHeaders == GetAllHeaderValues(e, H_Received)
        Hit(k, p) == Contains(ToLower(receivedHeaders[k]), suspiciousPatterns[p])
        bad == {k \in 1..Len(receivedHeaders) : \E p \in 1..Len(suspiciousPatterns) : Hit(k, p)}
    IN  IF Len(receivedHeaders) = 0
        THEN Trigger(<<"Email doesn't have any Received headers">>)
        ELSE IF bad = {} THEN NoTrigger
        ELSE LET k == CHOOSE k \in bad : \A h \in bad : k <= h
                 p == CHOOSE p \in 1..Len(suspiciousPatterns) :
                        Hit(k, p) /\ \A q \in 1..(p - 1) : ~Hit(k, q)
             IN  Trigger(<<"Suspicious pattern found in Received headers: ">>
                         \o suspiciousPatterns[p])

\* the first two rules registered with each other's CheckFunc
CheckFuncSwapped(k, e, txt, start) ==
    CASE k = 1 -> checkFromReturnPathDomainMismatch(e)
      [] k = 2 -> checkFromReplyToDomainMismatch(e)
      [] k = 3 -> checkMissingSPF(e, txt)
      [] k = 4 -> checkSuspiciousFromDomain(e, start)
      [] k = 5 -> checkMultipleFromHeaders(e)
      [] k = 6 -> checkSuspiciousReceivedChain(e)

\* rule.CheckFunc(email) of the k-th registered rule
CheckFunc(k, e, txt, start) ==
    CASE k = 1 -> checkFromReplyToDomainMismatch(e)
      [] k = 2 -> checkFromReturnPathDomainMismatch(e)
      [] k = 3 -> checkMissingSPF(e, txt)
      [] k = 4 -> checkSuspiciousFromDomain(e, start)
      [] k = 5 -> checkMultipleFromHeaders(e)
      [] k = 6 -> checkSuspiciousReceivedChain(e)

\* ----------------------------------------------------------------- detector

\* checkSPF reading the policy from the first TXT record instead of the first
\* "v=spf1" record
checkSPFFirstRecord(e, domain, txt) ==
    IF txt.err THEN <<"SPF lookup failed for domain ">> \o domain
    ELSE IF \A k \in 1..Len(txt.records) : ~HasPrefix(txt.records[k], SPFPrefix)
         THEN <<"Domain ">> \o domain \o <<" doesn't have an SPF record">>
    ELSE IF Contains(txt.records[1], <<"-","a","l","l">>) \/ Contains(txt.records[1], <<"~","a","l","l">>) THEN Empty
    ELSE IF Contains(txt.records[1], <<"?","a","l","l">>)
         THEN <<"Domain ">> \o domain \o <<" has a neutral SPF policy">>
    ELSE <<"Domain ">> \o domain \o <<" has a permissive SPF policy">>

\* checkSPF; txt is what its net.LookupTXT(domain) returns
checkSPF(e, domain, txt) ==
    IF txt.err THEN <<"SPF lookup failed for domain ">> \o domain
    ELSE LET found == {k \in 1..Len(txt.records) : HasPrefix(txt.records[k], SPFPrefix)}
         IN  IF found = {} THEN <<"Domain ">> \o domain \o <<" doesn't have an SPF record">>
             ELSE LET spfRecord == txt.records[CHOOSE k \in found : \A h \in found : k <= h]
                  IN  IF Contains(spfRecord, <<"-","a","l","l">>) THEN Empty
                      ELSE IF Contains(spfRecord, <<"~","a","l","l">>) THEN Empty
                      ELSE IF Contains(spfRecord, <<"?","a","l","l">>)
                           THEN <<"Domain ">> \o domain \o <<" has a neutral SPF policy">>
                      ELSE <<"Domain ">> \o domain \o <<" has a permissive SPF policy">>

\* checkDKIM: no lookup
checkDKIM(e, domain) ==
    IF ~HasHeader(e, H_DKIM) THEN <<"Email doesn't have a DKIM signature">>
    ELSE IF ~Contains(GetHeaderValue(e, H_DKIM), domain)
         THEN <<"DKIM signature domain doesn't match From domain">>
    ELSE Empty

\* checkDMARC looking up the domain itself
dmarcDomainBare(domain) == domain

\* the name checkDMARC looks up
dmarcDomain(domain) == <<"_","d","m","a","r","c",".">> \o domain

\* checkDMARC; txt is what its net.LookupTXT(dmarcDomain) returns
checkDMARC(e, domain, txt) ==
    IF txt.err THEN <<"DMARC lookup failed for domain ">> \o domain
    ELSE LET found == {k \in 1..Len(txt.records) : HasPrefix(txt.records[k], DMARCPrefix)}
         IN  IF found = {} THEN <<"Domain ">> \o domain \o <<" doesn't have a DMARC record">>
             ELSE LET dmarcRecord == txt.records[CHOOSE k \in found : \A h \in found : k <= h]
                  IN  IF Contains(dmarcRecord, <<"p","=","r","e","j","e","c","t">>) THEN Empty
                      ELSE IF Contains(dmarcRecord, <<"p","=","q","u","a","r","a","n","t","i","n","e">>) THEN Empty
                      ELSE IF Contains(dmarcRecord, <<"p","=","n","o","n","e">>)
                           THEN <<"Domain ">> \o domain \o <<" has a monitoring-only DMARC policy">>
                      ELSE <<"Domain ">> \o domain \o <<" has an unknown DMARC policy">>

\* the score each non-empty finding adds, and the verdict threshold
SPFWeight == 3
DKIMWeight == 3
DMARCWeight == 2
Threshold == 5

\* Analyze: the guard of the SPF / DKIM / DMARC block
FromDomainAvailable(e) == e.From # Nil /\ GetDomain(e.From) # Empty

\* Analyze: result.Score += w; result.Reasons = append(result.Reasons, reason)
AddFinding(r, w, reason) ==
    [r EXCEPT !.Score = @ + w, !.Reasons = Append(@, reason)]

\* Analyze: the fresh result
NewResult == [IsSpoofed |-> FALSE, Reasons |-> <<>>, Score |-> 0]

\* the verdict with `>` for `>=`
SetVerdictAbove(r) == IF r.Score > Threshold THEN [r EXCEPT !.IsSpoofed = TRUE] ELSE r

\* Analyze: the verdict
SetVerdict(r) == IF r.Score >= Threshold THEN [r EXCEPT !.IsSpoofed = TRUE] ELSE r

\* ------------------------------------------------------------------- inputs

D_example == <<"e","x","a","m","p","l","e",".","c","o","m">>
D_other == <<"o","t","h","e","r",".","c","o","m">>

\* From addresses of the emails handed to Analyze directly: nil, no "@", two
\* "@", an ordinary domain, the two domains of the lookalike examples, and a
\* domain that contains two reference domains with the dot removed
FromChoices ==
    { Nil, Ptr(<<"a","l","i","c","e">>), Ptr(<<"a","@","b","@","e","x","a","m","p","l","e",".","c","o","m">>),
      Ptr(<<"a","l","i","c","e","@">> \o D_example),
      Ptr(<<"a","l","i","c","e","@","p","a","y","p","a","l","-","s","e","c","u","r","e",".","c","o","m">>),
      Ptr(<<"a","l","i","c","e","@","g","m","a","i","1",".","c","o","m">>),
      Ptr(<<"a","l","i","c","e","@","g","m","a","i","l","c","o","m","-","y","a","h","o","o","c","o","m",".","c","o","m">>) }

ReplyToChoices(from) == {Nil, from, Ptr(<<"a","l","i","c","e","@">> \o D_other)}

ReturnPathChoices(from) ==
    {Empty, <<"b","o","u","n","c","e","@">> \o D_other}
    \cup (IF GetDomain(from) # Empty THEN {<<"b","o","u","n","c","e","@">> \o GetDomain(from)} ELSE {})

FromHeaderChoices == { <<<<"a","l","i","c","e","@","x">>>>, <<<<"a","l","i","c","e","@","x">>, <<"b","o","b","@","y">>>> }

ReceivedChoices == { <<>>, <<<<"f","r","o","m"," ","m","x","1">>>>, <<<<"f","r","o","m"," ","m","x","1">>, <<"b","y"," ","L","o","c","a","l","H","o","s","t">>>> }

DKIMChoices(from) ==
    { <<>>, <<<<"d","=">> \o D_other>> }
    \cup (IF GetDomain(from) # Empty THEN {<<<<"d","=">> \o GetDomain(from)>>} ELSE {})

\* a header map with the given values; a name without values is not a key
MakeHeaders(fromVals, receivedVals, dkimVals) ==
    LET vals == [name \in {H_From, H_Received, H_DKIM} |->
                    IF name = H_From THEN fromVals
                    ELSE IF name = H_Received THEN receivedVals ELSE dkimVals]
    IN  [name \in {n \in DOMAIN vals : vals[n] # <<>>} |-> vals[name]]

Emails ==
    { [From |-> f, ReplyTo |-> rt, ReturnPath |-> rp, Headers |-> MakeHeaders(fh, rc, dk)] :
        <<f, rt, rp, fh, rc, dk>> \in
            { t \in FromChoices \X (FromChoices \cup {Ptr(<<"a","l","i","c","e","@">> \o D_other)})
                     \X {Empty, <<"b","o","u","n","c","e","@">> \o D_other, <<"b","o","u","n","c","e","@">> \o D_example,
                         <<"b","o","u","n","c","e","@","p","a","y","p","a","l","-","s","e","c","u","r","e",".","c","o","m">>, <<"b","o","u","n","c","e","@","g","m","a","i","1",".","c","o","m">>,
                         <<"b","o","u","n","c","e","@","g","m","a","i","l","c","o","m","-","y","a","h","o","o","c","o","m",".","c","o","m">>}
                     \X FromHeaderChoices \X ReceivedChoices
                     \X {<<>>, <<<<"d","=">> \o D_other>>, <<<<"d","=">> \o D_example>>,
                         <<<<"d","=","p","a","y","p","a","l","-","s","e","c","u","r","e",".","c","o","m">>>>, <<<<"d","=","g","m","a","i","1",".","c","o","m">>>>,
                         <<<<"d","=","g","m","a","i","l","c","o","m","-","y","a","h","o","o","c","o","m",".","c","o","m">>>>} :
                /\ t[2] \in ReplyToChoices(t[1])
                /\ t[3] \in ReturnPathChoices(t[1])
                /\ t[6] \in DKIMChoices(t[1]) } }

\* header lines of the raw messages handed to ParseEmail
Line(name, value) == [name |-> name, value |-> value]

RawFromChoices ==
    { <<>>, <<Line(H_From, <<"a","l","i","c","e","@">> \o D_example)>>,
      <<Line(H_From, <<"a","l","i","c","e","@">> \o D_example), Line(H_From, <<"b","o","b","@">> \o D_other)>> }

RawDKIMChoices ==
    { <<>>, <<Line(H_DKIM, <<"d","=">> \o D_example)>>,
      <<Line(<<"d","k","i","m","-","s","i","g","n","a","t","u","r","e">>, <<"d","=">> \o D_example)>> }

RawReceivedChoices == { <<>>, <<Line(H_Received, <<"f","r","o","m"," ","m","x","1">>)>> }

RawReturnPathChoices == { <<>>, <<Line(H_ReturnPath, <<"<","b","o","u","n","c","e","@">> \o D_example \o <<">">>)>> }

\* includes the empty input
RawMessages ==
    { rc \o dk \o f \o rp :
        <<rc, dk, f, rp>> \in RawReceivedChoices \X RawDKIMChoices
                              \X RawFromChoices \X RawReturnPathChoices }

\* what the resolver may answer: a failure, or the TXT records of the name
DomainAnswers ==
    { LookupError,
      LookupOK(<<<<"x","=","1">>>>),
      LookupOK(<<<<"x","=","1">>, <<"v","=","s","p","f","1"," ","-","a","l","l">>>>),
      LookupOK(<<<<"v","=","s","p","f","1"," ","?","a","l","l">>>>) }

DmarcAnswers ==
    { LookupError,
      LookupOK(<<>>),
      LookupOK(<<<<"v","=","D","M","A","R","C","1",";"," ","p","=","r","e","j","e","c","t">>>>),
      LookupOK(<<<<"v","=","D","M","A","R","C","1",";"," ","p","=","n","o","n","e">>>>) }

TXTOf(name) == IF HasPrefix(name, <<"_","d","m","a","r","c",".">>) THEN DmarcAnswers ELSE DomainAnswers

\* ------------------------------------------------------------ state machine

E == email[1]

\* net.LookupTXT(name), the n-th lookup of the current Analyze call: the first
\* call draws the answer, a later call on the same Email gets the same answer
LookupTXT(name) ==
    IF Len(lookups) < Len(answers) THEN {answers[Len(lookups) + 1]} ELSE TXTOf(name)

Recorded(txt) == IF Len(lookups) < Len(answers) THEN answers ELSE Append(answers, txt)

\* the states before ParseEmail (a raw message) or before Analyze (an Email the
\* caller built itself)
InitWith(messages, emails) ==
    /\ \/ /\ raw \in messages
          /\ email = Nil
          /\ pc = "parse"
       \/ /\ raw = <<>>
          /\ email \in {Ptr(e) : e \in emails}
          /\ pc = "ready"
    /\ ruleIdx = 0
    /\ result = NewResult
    /\ lookups = <<>>
    /\ answers = <<>>
    /\ runs = 0
    /\ prev = Nil

Init == InitWith(RawMessages, Emails)

\* utils.ParseEmail
ParseEmail ==
    /\ pc = "parse"
    /\ IF ParseEmailFails(raw)
       THEN pc' = "rejected" /\ email' = Nil
       ELSE pc' = "ready" /\ email' = Ptr(ParseEmailValue(raw))
    /\ UNCHANGED <<raw, ruleIdx, result, lookups, answers, runs, prev>>

\* Analyze, entry: the fresh result
Enter ==
    /\ runs' = runs + 1
    /\ result' = NewResult
    /\ lookups' = <<>>
    /\ ruleIdx' = 1
    /\ pc' = "rules"
    /\ UNCHANGED <<raw, email, answers>>

\* the first Analyze call on the Email
AnalyzeStart ==
    /\ pc = "ready"
    /\ Enter
    /\ UNCHANGED prev

\* a further Analyze call on the same Email, the resolver answering as before
AnalyzeAgain ==
    /\ pc = "done"
    /\ runs < MaxRuns
    /\ Enter
    /\ prev' = Ptr(result)

\* Analyze, one iteration of `for _, rule := range d.rules`
ApplyRule ==
    /\ pc = "rules"
    /\ LET looksUp == ruleIdx = 3 /\ MissingSPFLooksUp(E)
       IN  \E txt \in (IF looksUp THEN LookupTXT(GetDomain(E.From)) ELSE {LookupError}),
              start \in (IF ruleIdx = 4 THEN 1..Len(commonDomains) ELSE {1}) :
              LET out == CheckFunc(ruleIdx, E, txt, start)
              IN  /\ result' = IF out.triggered
                               THEN AddFinding(result, Rules[ruleIdx].Weight, out.reason)
                               ELSE result
                  /\ lookups' = IF looksUp THEN Append(lookups, GetDomain(E.From)) ELSE lookups
                  /\ answers' = IF looksUp THEN Recorded(txt) ELSE answers
    /\ IF ruleIdx < Len(Rules)
       THEN ruleIdx' = ruleIdx + 1 /\ pc' = "rules"
       ELSE ruleIdx' = 0 /\ pc' = IF FromDomainAvailable(E) THEN "spf" ELSE "verdict"
    /\ UNCHANGED <<raw, email, runs, prev>>

\* Analyze, the SPF check
CheckSPF ==
    /\ pc = "spf"
    /\ \E txt \in LookupTXT(GetDomain(E.From)) :
          LET spfResult == checkSPF(E, GetDomain(E.From), txt)
          IN  /\ result' = IF spfResult # Empty
                           THEN AddFinding(result, SPFWeight, spfResult) ELSE result
              /\ lookups' = Append(lookups, GetDomain(E.From))
              /\ answers' = Recorded(txt)
    /\ pc' = "dkim"
    /\ UNCHANGED <<raw, email, ruleIdx, runs, prev>>

\* Analyze, the DKIM check
CheckDKIM ==
    /\ pc = "dkim"
    /\ LET dkimResult == checkDKIM(E, GetDomain(E.From))
       IN  result' = IF dkimResult # Empty
                     THEN AddFinding(result, DKIMWeight, dkimResult) ELSE result
    /\ pc' = "dmarc"
    /\ UNCHANGED <<raw, email, ruleIdx, lookups, answers, runs, prev>>

\* Analyze, the DMARC check
CheckDMARC ==
    /\ pc = "dmarc"
    /\ \E txt \in LookupTXT(dmarcDomain(GetDomain(E.From))) :
          LET dmarcResult == checkDMARC(E, GetDomain(E.From), txt)
          IN  /\ result' = IF dmarcResult # Empty
                           THEN AddFinding(result, DMARCWeight, dmarcResult) ELSE result
              /\ lookups' = Append(lookups, dmarcDomain(GetDomain(E.From)))
              /\ answers' = Recorded(txt)
    /\ pc' = "verdict"
    /\ UNCHANGED <<raw, email, ruleIdx, runs, prev>>

\* Analyze, the verdict and the return
Verdict ==
    /\ pc = "verdict"
    /\ result' = SetVerdict(result)
    /\ pc' = "done"
    /\ UNCHANGED <<raw, email, ruleIdx, lookups, answers, runs, prev>>

Next ==
    \/ ParseEmail
    \/ AnalyzeStart
    \/ ApplyRule
    \/ CheckSPF
    \/ CheckDKIM
    \/ CheckDMARC
    \/ Verdict

Spec == Init /\ [][Next]_vars

\* the same Email analysed more than once
RepeatEmails ==
    { e \in Emails :
        /\ e.From \in {Nil, Ptr(<<"a","l","i","c","e","@">> \o D_example), Ptr(<<"a","l","i","c","e","@","g","m","a","i","l","c","o","m","-","y","a","h","o","o","c","o","m",".","c","o","m">>)}
        /\ e.ReplyTo = Nil
        /\ Len(GetAllHeaderValues(e, H_From)) = 1
        /\ GetAllHeaderValues(e, H_DKIM) # <<<<"d","=">> \o D_other>> }

InitRepeat == InitWith(RawMessages, RepeatEmails)

NextRepeat == Next \/ AnalyzeAgain

SpecRepeat == InitRepeat /\ [][NextRepeat]_vars

\* ------------------------------------------------------------------- claims

\* the From domain of the Email under analysis, and the call's three lookups:
\* the first by checkMissingSPF, the second by checkSPF, the third by checkDMARC
Analysing == pc \in {"rules", "spf", "dkim", "dmarc", "verdict", "done"}
Returned == pc = "done"
Dom == GetDomain(E.From)
Resolvable == FromDomainAvailable(E)
RuleAnswer == IF Len(answers) >= 1 THEN answers[1] ELSE LookupError
SPFAnswer == answers[2]
DMARCAnswer == answers[3]

One(c) == IF c.triggered THEN <<c.reason>> ELSE <<>>
Finding(text) == IF text # Empty THEN <<text>> ELSE <<>>
Points(hit, w) == IF hit THEN w ELSE 0

\* what each signal yields on this Email with these answers
SigReplyTo == checkFromReplyToDomainMismatch(E)
SigReturnPath == checkFromReturnPathDomainMismatch(E)
SigMissingSPF == checkMissingSPF(E, RuleAnswer)
SimilarTo ==
    IF ~Resolvable THEN {}
    ELSE {k \in 1..Len(commonDomains) :
            Dom # commonDomains[k] /\ isSimilarDomain(Dom, commonDomains[k])}
SuspiciousReason(k) ==
    <<"From domain (">> \o Dom \o <<") looks similar to ">> \o commonDomains[k]
SigSuspicious ==
    IF SimilarTo = {} THEN {NoTrigger} ELSE {Trigger(SuspiciousReason(k)) : k \in SimilarTo}
SigMultipleFrom == checkMultipleFromHeaders(E)
SigReceived == checkSuspiciousReceivedChain(E)
SigSPF == IF Resolvable THEN Finding(checkSPF(E, Dom, SPFAnswer)) ELSE <<>>
SigDKIM == IF Resolvable THEN Finding(checkDKIM(E, Dom)) ELSE <<>>
SigDMARC == IF Resolvable THEN Finding(checkDMARC(E, Dom, DMARCAnswer)) ELSE <<>>
SuspiciousHit == SimilarTo # {}

\* the score of the signals other than the two SPF ones and the DMARC one
BaseScore ==
    Points(SigReplyTo.triggered, 3) + Points(SigReturnPath.triggered, 3)
    + Points(SuspiciousHit, 4) + Points(SigMultipleFrom.triggered, 5)
    + Points(SigReceived.triggered, 2) + Points(SigDKIM # <<>>, 3)

\* C1: when Analyze returns, IsSpoofed = (Score >= 5) and Score is the sum of the
\* weights of the triggered structural rules plus 3 for an SPF finding, 3 for a
\* DKIM finding and 2 for a DMARC finding.
C1_VerdictIsThreshold ==
    Returned =>
        /\ result.IsSpoofed = (result.Score >= 5)
        /\ result.Score = BaseScore + Points(SigMissingSPF.triggered, 2)
                          + Points(SigSPF # <<>>, 3) + Points(SigDMARC # <<>>, 2)

\* C1 witness: a call whose three lookups were made and whose score is exactly
\* the threshold, reached by a failed SPF lookup and a failed DMARC lookup
C1_Witness ==
    /\ Returned /\ Resolvable /\ Len(lookups) = 3
    /\ result.Score = 5 /\ result.IsSpoofed
    /\ SPFAnswer.err /\ DMARCAnswer.err

\* the reason lists the fixed order allows on this Email with these answers
OrderedReasons ==
    { One(SigReplyTo) \o One(SigReturnPath) \o One(SigMissingSPF) \o One(c)
      \o One(SigMultipleFrom) \o One(SigReceived) \o SigSPF \o SigDKIM \o SigDMARC :
        c \in SigSuspicious }

\* C2: Reasons holds the reasons of the triggered rules in registration order,
\* then the SPF, the DKIM and the DMARC finding, and is empty iff Score = 0.
C2_ReasonsInOrder ==
    /\ (result.Reasons = <<>>) <=> (result.Score = 0)
    /\ Returned => result.Reasons \in OrderedReasons

\* C2 witness: a returned result with a rule reason before and after the
\* lookalike rule's reason, followed by all three findings
C2_Witness ==
    /\ Returned /\ Len(result.Reasons) >= 7
    /\ SigReplyTo.triggered /\ SuspiciousHit /\ SigReceived.triggered
    /\ SigSPF # <<>> /\ SigDKIM # <<>> /\ SigDMARC # <<>>

SPFLookupFailed == <<"SPF lookup failed for domain ">> \o Dom
DMARCLookupFailed == <<"DMARC lookup failed for domain ">> \o Dom

\* the reasons of the two SPF signals, and of the DMARC check
IsSPFReason(r) ==
    r \in { SPFLookupFailed,
            <<"Domain ">> \o Dom \o <<" doesn't have an SPF record">>,
            <<"Domain ">> \o Dom \o <<" has a neutral SPF policy">>,
            <<"Domain ">> \o Dom \o <<" has a permissive SPF policy">> }
IsDMARCReason(r) ==
    r \in { DMARCLookupFailed,
            <<"Domain ">> \o Dom \o <<" doesn't have a DMARC record">>,
            <<"Domain ">> \o Dom \o <<" has a monitoring-only DMARC policy">>,
            <<"Domain ">> \o Dom \o <<" has an unknown DMARC policy">> }

SPFSignalsAddOneFinding ==
    /\ SelectSeq(result.Reasons, IsSPFReason) = <<SPFLookupFailed>>
    /\ result.Score = BaseScore + Points(SigDMARC # <<>>, 2) + 3

DMARCAddsOneFinding ==
    /\ SelectSeq(result.Reasons, IsDMARCReason) = <<DMARCLookupFailed>>
    /\ result.Score = BaseScore + Points(SigMissingSPF.triggered, 2)
                      + Points(SigSPF # <<>>, 3) + 2

\* C3 as stated: a failed TXT lookup for the From domain D makes the SPF
\* signals add exactly one reason and 3, a failed lookup for _dmarc.D makes
\* DMARC add exactly one reason and 2.
C3_AsStated ==
    (Returned /\ Resolvable) =>
        /\ (RuleAnswer.err \/ SPFAnswer.err) => SPFSignalsAddOneFinding
        /\ DMARCAnswer.err => DMARCAddsOneFinding

\* C3 amended: when both TXT lookups for D fail (the one of the missing-SPF rule
\* and the one of the SPF check) the SPF signals add exactly one reason, "SPF
\* lookup failed for domain D", and 3; when the lookup for _dmarc.D fails, DMARC
\* adds exactly one reason, "DMARC lookup failed for domain D", and 2.
C3_LookupFailureOneFinding ==
    (Returned /\ Resolvable) =>
        /\ (RuleAnswer.err /\ SPFAnswer.err) => SPFSignalsAddOneFinding
        /\ DMARCAnswer.err => DMARCAddsOneFinding

\* C3 witness: a returned call in which all three lookups failed
C3_Witness ==
    /\ Returned /\ Resolvable
    /\ RuleAnswer.err /\ SPFAnswer.err /\ DMARCAnswer.err
    /\ SPFLookupFailed = result.Reasons[Len(result.Reasons) - 2]

MultipleFromReason == <<"Email contains multiple From headers">>
IsReceivedReason(r) ==
    \/ r = <<"Email doesn't have any Received headers">>
    \/ \E p \in 1..Len(suspiciousPatterns) :
          r = <<"Suspicious pattern found in Received headers: ">> \o suspiciousPatterns[p]

\* From is nil, or its address has no "@" or more than one
NoFromDomain ==
    \/ E.From = Nil
    \/ Len(SelectSeq(E.From[1], LAMBDA c : c = "@")) # 1

\* C4: for an Email whose From is nil or yields no domain, Analyze issues no
\* lookup, runs no SPF / DKIM / DMARC check and triggers no domain-dependent
\* rule; the score is that of the multiple-From rule (5) and of the
\* Received-chain rule (2) alone, one of 0, 2, 5, 7.
C4_NoDomainOnlyHeaderRules ==
    (Analysing /\ NoFromDomain) =>
        /\ lookups = <<>>
        /\ pc \notin {"spf", "dkim", "dmarc"}
        /\ \A k \in 1..Len(result.Reasons) :
              result.Reasons[k] = MultipleFromReason \/ IsReceivedReason(result.Reasons[k])
        /\ Returned =>
              /\ result.Score = Points(Len(GetAllHeaderValues(E, H_From)) > 1, 5)
                                + Points(SigReceived.triggered, 2)
              /\ result.Score \in {0, 2, 5, 7}

\* C4 witness: a returned result for a From address with two "@" and a
\* Reply-To that has a domain, both header rules triggered
C4_Witness ==
    /\ Returned
    /\ E.From # Nil /\ Len(Split(E.From[1], "@")) = 3
    /\ GetDomain(E.ReplyTo) # Empty
    /\ result.Score = 7

D_paypal_secure == <<"p","a","y","p","a","l","-","s","e","c","u","r","e",".","c","o","m">>
D_gmai1 == <<"g","m","a","i","1",".","c","o","m">>

\* C5 as stated: isSimilarDomain is true of paypal-secure.com against
\* paypal.com and false of gmai1.com against gmail.com, so the suspicious-From
\* rule triggers for a From address at paypal-secure.com and not for one at
\* gmai1.com.
C5_AsStated ==
    (Returned /\ Resolvable) =>
        /\ Dom = D_paypal_secure =>
              /\ isSimilarDomain(Dom, <<"p","a","y","p","a","l",".","c","o","m">>)
              /\ \E k \in 1..Len(result.Reasons) :
                    result.Reasons[k] = <<"From domain (">> \o Dom
                                        \o <<") looks similar to ">> \o <<"p","a","y","p","a","l",".","c","o","m">>
        /\ Dom = D_gmai1 =>
              /\ ~isSimilarDomain(Dom, <<"g","m","a","i","l",".","c","o","m">>)
              /\ \A k \in 1..Len(result.Reasons), j \in 1..Len(commonDomains) :
                    result.Reasons[k] # SuspiciousReason(j)

HasRecord(txt, record) ==
    ~txt.err /\ \E k \in 1..Len(txt.records) : txt.records[k] = record
NoRecordWith(txt, prefix) ==
    ~txt.err /\ \A k \in 1..Len(txt.records) : ~HasPrefix(txt.records[k], prefix)

\* the Email and the answers of the clean scenario
CleanScenario ==
    /\ Resolvable
    /\ E.ReplyTo # Nil /\ GetDomain(E.ReplyTo) = Dom
    /\ Len(Split(E.ReturnPath, "@")) = 2 /\ Split(E.ReturnPath, "@")[2] = Dom
    /\ Len(GetAllHeaderValues(E, H_From)) = 1
    /\ Len(GetAllHeaderValues(E, H_Received)) >= 1
    /\ \A k \in 1..Len(GetAllHeaderValues(E, H_Received)), p \in 1..Len(suspiciousPatterns) :
          ~Contains(ToLower(GetAllHeaderValues(E, H_Received)[k]), suspiciousPatterns[p])
    /\ HasHeader(E, H_DKIM) /\ Contains(GetHeaderValue(E, H_DKIM), Dom)
    /\ HasRecord(RuleAnswer, <<"v","=","s","p","f","1"," ","-","a","l","l">>) /\ HasRecord(SPFAnswer, <<"v","=","s","p","f","1"," ","-","a","l","l">>)
    /\ HasRecord(DMARCAnswer, <<"v","=","D","M","A","R","C","1",";"," ","p","=","r","e","j","e","c","t">>)

CleanResult == result.Score = 0 /\ result.Reasons = <<>> /\ ~result.IsSpoofed

\* C6 as stated: equal From, Reply-To and Return-Path domains, one From
\* header, a clean Received chain, a DKIM-Signature naming the From domain, an
\* SPF record "v=spf1 -all" and a DMARC record with p=reject give Score 0, no
\* reason and IsSpoofed false.
C6_AsStated == (Returned /\ CleanScenario) => CleanResult

\* C6 amended: the same, for a From domain that isSimilarDomain finds similar
\* to no other domain of the reference set.
C6_CleanEmailScoresZero == (Returned /\ CleanScenario /\ SimilarTo = {}) => CleanResult

\* C6 witness: the clean scenario, returned, for a domain that is no lookalike
C6_Witness == Returned /\ CleanScenario /\ SimilarTo = {} /\ Len(lookups) = 3

\* the Email and the answers of the scenario without SPF, DKIM and DMARC
UnprotectedScenario ==
    /\ E.From = Ptr(<<"a","l","i","c","e","@","e","x","a","m","p","l","e",".","c","o","m">>)
    /\ E.ReplyTo = Ptr(<<"a","l","i","c","e","@","o","t","h","e","r",".","c","o","m">>)
    /\ E.ReturnPath = Empty
    /\ ~HasHeader(E, H_DKIM)
    /\ NoRecordWith(RuleAnswer, SPFPrefix) /\ NoRecordWith(SPFAnswer, SPFPrefix)
    /\ NoRecordWith(DMARCAnswer, DMARCPrefix)

NoSPFRecord == <<"Domain ">> \o <<"e","x","a","m","p","l","e",".","c","o","m">> \o <<" doesn't have an SPF record">>

UnprotectedReasons ==
    /\ result.Reasons[1] = <<"From domain (">> \o <<"e","x","a","m","p","l","e",".","c","o","m">>
                           \o <<") doesn't match Reply-To domain (">> \o <<"o","t","h","e","r",".","c","o","m">> \o <<")">>
    /\ result.Reasons[2] = NoSPFRecord
    /\ LET n == Len(result.Reasons)
       IN  /\ result.Reasons[n - 2] = NoSPFRecord
           /\ result.Reasons[n - 1] = <<"Email doesn't have a DKIM signature">>
           /\ result.Reasons[n] = <<"Domain ">> \o <<"e","x","a","m","p","l","e",".","c","o","m">>
                                  \o <<" doesn't have a DMARC record">>
    /\ result.IsSpoofed

\* C7 as stated: in that scenario the From/Reply-To mismatch, the missing-SPF
\* rule and the SPF, DKIM and DMARC findings all trigger, and Score is 13 plus
\* the Received-chain contribution (0 or 2).
C7_AsStated ==
    (Returned /\ UnprotectedScenario) =>
        /\ UnprotectedReasons
        /\ result.Score = 13 + Points(SigReceived.triggered, 2)

\* C7 amended: Score is 13 plus the Received-chain contribution (0 or 2) plus
\* the multiple-From-headers contribution (0 or 5); the missing SPF record is
\* counted twice, as the second reason and as the SPF finding.
C7_UnprotectedDomainScore ==
    (Returned /\ UnprotectedScenario) =>
        /\ UnprotectedReasons
        /\ result.Score = 13 + Points(SigReceived.triggered, 2)
                          + Points(Len(GetAllHeaderValues(E, H_From)) > 1, 5)
        /\ Len(SelectSeq(result.Reasons, LAMBDA r : r = NoSPFRecord)) = 2

\* C7 witness: the scenario, returned, with a clean Received chain and one From
\* header: exactly the five signals, Score 13
C7_Witness ==
    /\ Returned /\ UnprotectedScenario
    /\ result.Score = 13 /\ Len(result.Reasons) = 5

\* the lookups of one call, in order
CallLookups == <<Dom, Dom, <<"_","d","m","a","r","c",".">> \o Dom>>

LookupsInOrder(max) ==
    Analysing =>
        IF Resolvable
        THEN /\ Len(lookups) <= max
             /\ \A k \in 1..Len(lookups) : lookups[k] = CallLookups[k]
             /\ pc \in {"dkim", "dmarc"} => Len(lookups) = 2
        ELSE lookups = <<>>

\* C8 as stated: one Analyze call issues at most two TXT lookups, one for the
\* From domain and one for _dmarc.<domain>; DKIM issues none; none is issued
\* when the From domain is not resolvable.
C8_AsStated == LookupsInOrder(2)

\* C8 amended: at most three TXT lookups, two for the From domain (the
\* missing-SPF rule's and the SPF check's) and one for _dmarc.<domain>; DKIM
\* issues none; none is issued when the From domain is not resolvable.
C8_AtMostThreeLookups == LookupsInOrder(3)

\* C8 witness: a returned call that issued all three lookups
C8_Witness == Returned /\ Resolvable /\ lookups = CallLookups

\* C9 as stated: a second Analyze call on the same Email with the same DNS
\* answers returns the same Score, IsSpoofed and Reasons.
C9_AsStated == (Returned /\ prev # Nil) => result = prev[1]

IsDKIMReason(r) ==
    r \in { <<"Email doesn't have a DKIM signature">>,
            <<"DKIM signature domain doesn't match From domain">> }

\* C10 as stated: for an Email that ParseEmail produced from a raw message with
\* a "DKIM-Signature" header whose value contains the From domain, Analyze
\* yields no DKIM finding; the missing-signature finding appears only when the
\* raw message has no such header.
C10_AsStated ==
    (Returned /\ raw # <<>> /\ Resolvable) =>
        /\ (\E k \in 1..Len(raw) : raw[k].name = H_DKIM /\ Contains(raw[k].value, Dom))
              => SelectSeq(result.Reasons, IsDKIMReason) = <<>>
        /\ (\E k \in 1..Len(result.Reasons) :
                result.Reasons[k] = <<"Email doesn't have a DKIM signature">>)
              => \A k \in 1..Len(raw) : raw[k].name # H_DKIM

====
